---------------------------- MODULE Spec2Model ----------------------------
(***************************************************************************)
(* A model of the financial data pipeline of src/powerbi.py: the symbol    *)
(* resolver (resolve_nse_symbol and its remote lookups), the cell and      *)
(* metric cleaning functions, unit inference, table parsing and the        *)
(* flattening into normalized records; and of the scripts of src/modules:  *)
(* the symbol matcher find_best_symbol and the news and sentiment          *)
(* collectors.                                                             *)
(*                                                                         *)
(* Python strings are modelled as sequences of one-character strings, so   *)
(* that trimming, case conversion, splitting, substring tests and regular  *)
(* expression filters are computed character by character as the code      *)
(* computes them.                                                          *)
(***************************************************************************)
EXTENDS Integers, Sequences, FiniteSets, TLC

VARIABLES
    company_name,   \* resolve_nse_symbol: the argument
    rpc,            \* resolve_nse_symbol: position in the function
    name,           \* resolve_nse_symbol: the local "name"
    tokens,         \* resolve_nse_symbol: name.split()
    tok,            \* resolve_nse_symbol: index of the current token
    calls,          \* history of the remote lookups issued, in order
    result,         \* resolve_nse_symbol: the returned symbol
    value,          \* clean_numeric_value: the argument
    cpc,            \* how often clean_numeric_value has been applied
    cleaned,        \* clean_numeric_value(value)
    recleaned,      \* clean_numeric_value(cleaned)
    metric_name,    \* infer_unit: the argument
    upc,            \* whether infer_unit has returned
    unit,           \* infer_unit: the returned unit
    page,           \* the company page the site answers with
    symbol,         \* run_financial_pipeline: symbol
    tpc,            \* position between fetch and flattening
    company,        \* run_financial_pipeline: company_name
    tables,         \* run_financial_pipeline: tables
    rows,           \* run_financial_pipeline: rows
    source,         \* where get_company_input reads from
    ppc,            \* run_financial_pipeline: position in the function
    company_inputs, \* run_financial_pipeline: company_inputs
    idx,            \* run_financial_pipeline: index of company_input
    all_rows,       \* run_financial_pipeline: all_rows
    csv_file,       \* the records of the output file, in file order
    success,        \* the value run_financial_pipeline returned
    exit_code,      \* the exit code of the process
    user_input,     \* find_best_symbol: the argument
    fpc,            \* whether find_best_symbol has returned
    best_symbol,    \* find_best_symbol: the returned symbol
    script,         \* the collector script that runs
    topic,          \* the company the collector was started with
    kpc,            \* the collector: position in run / collect_finance_news
    fetch_log,      \* the collector: what each fetch met, in call order
    collected,      \* the collector: the items each source returned
    saved           \* the collector: the rows written to the output file

resolveVars == <<company_name, rpc, name, tokens, tok, calls, result>>

cleanVars == <<value, cpc, cleaned, recleaned>>

unitVars == <<metric_name, upc, unit>>

tableVars == <<page, symbol, tpc, company, tables, rows>>

pipeVars == <<source, ppc, company_inputs, idx, all_rows, csv_file, success, exit_code>>

findVars == <<user_input, fpc, best_symbol>>

collectVars == <<script, topic, kpc, fetch_log, collected, saved>>

moduleVars == <<findVars, collectVars>>

vars == <<resolveVars, cleanVars, unitVars, tableVars, pipeVars, moduleVars>>

(***************************************************************************)
(* Bounds of the model.                                                    *)
(***************************************************************************)
\* longest enumerated free-text input of the resolver
MaxLen == 3
\* most entries of a remote search response
MaxQuotes == 2
\* longest enumerated cell text
MaxCellLen == 3
\* most words of an enumerated metric label
MaxWords == 2
\* most year columns of an enumerated table header
MaxCols == 7
\* most body rows of an enumerated narrow table
MaxRows == 2
\* most companies of an enumerated batch
MaxCompanies == 2
\* most items a remote source answers with
MaxItems == 1

(***************************************************************************)
(* Characters and the str methods the code uses.                           *)
(***************************************************************************)
LowerLetters ==
    <<"a","b","c","d","e","f","g","h","i","j","k","l","m",
      "n","o","p","q","r","s","t","u","v","w","x","y","z">>

UpperLetters ==
    <<"A","B","C","D","E","F","G","H","I","J","K","L","M",
      "N","O","P","Q","R","S","T","U","V","W","X","Y","Z">>

Digits == {"0","1","2","3","4","5","6","7","8","9"}

Whitespace == {" ", "\t"}

Range(s) == { s[i] : i \in DOMAIN s }

IsLower(c) == c \in Range(LowerLetters)

IsUpper(c) == c \in Range(UpperLetters)

IsAsciiAlpha(c) == IsLower(c) \/ IsUpper(c)

IsDigit(c) == c \in Digits

IndexIn(letters, c) == CHOOSE i \in DOMAIN letters : letters[i] = c

LowerChar(c) == IF IsUpper(c) THEN LowerLetters[IndexIn(UpperLetters, c)] ELSE c

UpperChar(c) == IF IsLower(c) THEN UpperLetters[IndexIn(LowerLetters, c)] ELSE c

\* str.lower()
Lower(s) == [i \in DOMAIN s |-> LowerChar(s[i])]

\* str.upper()
Upper(s) == [i \in DOMAIN s |-> UpperChar(s[i])]

RECURSIVE LStrip(_)
LStrip(s) ==
    IF s # <<>> /\ Head(s) \in Whitespace THEN LStrip(Tail(s)) ELSE s

RECURSIVE RStrip(_)
RStrip(s) ==
    IF s # <<>> /\ s[Len(s)] \in Whitespace
    THEN RStrip(SubSeq(s, 1, Len(s) - 1))
    ELSE s

\* str.strip()
Strip(s) == RStrip(LStrip(s))

\* str.split() with no separator: the maximal runs of non-whitespace
RECURSIVE SplitFrom(_, _, _)
SplitFrom(s, cur, acc) ==
    IF s = <<>>
    THEN IF cur = <<>> THEN acc ELSE Append(acc, cur)
    ELSE IF Head(s) \in Whitespace
         THEN SplitFrom(Tail(s), <<>>, IF cur = <<>> THEN acc ELSE Append(acc, cur))
         ELSE SplitFrom(Tail(s), Append(cur, Head(s)), acc)

Split(s) == SplitFrom(s, <<>>, <<>>)

StartsWith(s, p) == Len(p) <= Len(s) /\ SubSeq(s, 1, Len(p)) = p

EndsWith(s, p) == Len(p) <= Len(s) /\ SubSeq(s, Len(s) - Len(p) + 1, Len(s)) = p

\* "sub in s"
Contains(s, sub) ==
    \E i \in 1..(Len(s) - Len(sub) + 1) : SubSeq(s, i, i + Len(sub) - 1) = sub

\* str.replace(old, new) for a non-empty old: leftmost, non-overlapping
RECURSIVE Replace(_, _, _)
Replace(s, old, new) ==
    IF s = <<>> THEN <<>>
    ELSE IF StartsWith(s, old)
         THEN new \o Replace(SubSeq(s, Len(old) + 1, Len(s)), old, new)
         ELSE <<Head(s)>> \o Replace(Tail(s), old, new)

\* s[:n]
Prefix(s, n) == SubSeq(s, 1, IF Len(s) < n THEN Len(s) ELSE n)

\* every string over alphabet of length at most n
BoundedStrings(alphabet, n) == UNION { [1..k -> alphabet] : k \in 0..n }

\* every list over elems of length at most n
BoundedLists(elems, n) == UNION { [1..k -> elems] : k \in 0..n }

(***************************************************************************)
(* Symbol resolution: resolve_nse_symbol and the functions it calls.       *)
(***************************************************************************)
\* the static dictionary, as <<key, symbol>> pairs in source order
common_patterns ==
    << <<<<"a","m","b","u","j","a">>,
         <<"A","M","B","U","J","A","C","E","M">>>>,
       <<<<"t","c","s">>,
         <<"T","C","S">>>>,
       <<<<"t","a","t","a"," ","c","o","n","s","u","l","t","a","n","c","y"," ","s","e","r","v","i","c","e","s">>,
         <<"T","C","S">>>>,
       <<<<"i","n","f","o","s","y","s">>,
         <<"I","N","F","Y">>>>,
       <<<<"r","e","l","i","a","n","c","e">>,
         <<"R","E","L","I","A","N","C","E">>>>,
       <<<<"h","d","f","c"," ","b","a","n","k">>,
         <<"H","D","F","C","B","A","N","K">>>>,
       <<<<"i","c","i","c","i"," ","b","a","n","k">>,
         <<"I","C","I","C","I","B","A","N","K">>>>,
       <<<<"w","i","p","r","o">>,
         <<"W","I","P","R","O">>>>,
       <<<<"h","c","l"," ","t","e","c","h">>,
         <<"H","C","L","T","E","C","H">>>>,
       <<<<"t","e","c","h"," ","m","a","h","i","n","d","r","a">>,
         <<"T","E","C","H","M">>>>,
       <<<<"a","x","i","s"," ","b","a","n","k">>,
         <<"A","X","I","S","B","A","N","K">>>>,
       <<<<"k","o","t","a","k"," ","b","a","n","k">>,
         <<"K","O","T","A","K","B","A","N","K">>>> >>

PatternKeys == { common_patterns[i][1] : i \in DOMAIN common_patterns }

PatternSymbols == { common_patterns[i][2] : i \in DOMAIN common_patterns }

\* common_patterns[key]
PatternLookup(key) ==
    common_patterns[CHOOSE i \in DOMAIN common_patterns : common_patterns[i][1] = key][2]

\* the guard without its second test: only the empty string is refused
IsBlank_empty_only(s) == s = <<>>

\* "not company_name or not company_name.strip()"
IsBlank(s) == s = <<>> \/ Strip(s) = <<>>

\* company_name.strip().lower()
Normalize(s) == Lower(Strip(s))

\* what an HTTP GET of a search endpoint can come to
ErrorKinds == {"network", "http", "parse"}

\* the quotes a finance search response may list: <<symbol, exchange>>
YahooQuotes ==
    { [symbol |-> <<"I","N","F","Y",".","N","S">>, exchange |-> "BSE"],
      [symbol |-> <<"T","C","S",".","B","O">>, exchange |-> "BSE"],
      [symbol |-> <<"M","&","M">>, exchange |-> "NSI"],
      [symbol |-> <<>>, exchange |-> "NSI"] }

YahooResponses ==
    { [kind |-> k, quotes |-> <<>>] : k \in ErrorKinds }
    \cup { [kind |-> "ok", quotes |-> q] : q \in BoundedLists(YahooQuotes, MaxQuotes) }

\* the symbol fields a site search response may list
ScreenerSymbols == { <<"i","n","f","y">>, <<"M","&","M">>, <<>> }

ScreenerResponses ==
    { [kind |-> k, results |-> <<>>] : k \in ErrorKinds \cup {"notlist"} }
    \cup { [kind |-> "ok", results |-> r] : r \in BoundedLists(ScreenerSymbols, MaxQuotes) }

\* the first quote of the response that is listed on the NSE, 0 if none
RECURSIVE FirstNseQuote(_, _)
FirstNseQuote(quotes, i) ==
    IF i > Len(quotes) THEN 0
    ELSE IF EndsWith(quotes[i].symbol, <<".","N","S">>) \/ quotes[i].exchange = "NSI"
         THEN i
         ELSE FirstNseQuote(quotes, i + 1)

\* search_yahoo_symbol without its try/except: an error of the request escapes
search_yahoo_symbol_uncaught(query, resp) ==
    IF resp.kind \in ErrorKinds
    THEN [exc |-> TRUE, val |-> <<>>]
    ELSE LET i == FirstNseQuote(resp.quotes, 1)
         IN  [exc |-> FALSE,
              val |-> IF i = 0 THEN <<>>
                      ELSE Replace(resp.quotes[i].symbol, <<".","N","S">>, <<>>)]

\* search_yahoo_symbol: exc tells whether an exception leaves the function
search_yahoo_symbol(query, resp) ==
    IF resp.kind \in ErrorKinds
    THEN [exc |-> FALSE, val |-> <<>>]
    ELSE LET i == FirstNseQuote(resp.quotes, 1)
         IN  [exc |-> FALSE,
              val |-> IF i = 0 THEN <<>>
                      ELSE Replace(resp.quotes[i].symbol, <<".","N","S">>, <<>>)]

\* search_screener_symbol: exc tells whether an exception leaves the function
search_screener_symbol(query, resp) ==
    IF resp.kind # "ok" \/ resp.results = <<>>
    THEN [exc |-> FALSE, val |-> <<>>]
    ELSE [exc |-> FALSE, val |-> Upper(resp.results[1])]

\* re.sub(r"[^A-Za-z]", "", name).upper()[:7]
generate_symbol_fallback(n) == Prefix(Upper(SelectSeq(n, IsAsciiAlpha)), 7)

(***************************************************************************)
(* Cell and metric cleaning, unit inference.                               *)
(***************************************************************************)
\* the three characters of the currency mark as the source file spells it
CurrencyMark == <<"U+201A", "U+00C7", "U+03C0">>

PlaceholderCells == { <<>>, <<"-">>, <<"N","A">>, <<"N","/","A">> }

\* re.sub(r"[^\d.-]", "", s)
KeepNumeric(s) == SelectSeq(s, LAMBDA c : IsDigit(c) \/ c \in {".", "-"})

\* clean_numeric_value
clean_numeric_value(v) ==
    IF v = <<>> \/ Strip(v) \in PlaceholderCells
    THEN <<>>
    ELSE KeepNumeric(
           Replace(Replace(Replace(Replace(Strip(v),
               <<",">>, <<>>), <<"%">>, <<>>), CurrencyMark, <<>>), <<"$">>, <<>>))

\* re.sub(r"\s+", " ", s)
RECURSIVE CollapseWhitespace(_)
CollapseWhitespace(s) ==
    IF s = <<>> THEN <<>>
    ELSE IF Head(s) \in Whitespace
         THEN <<" ">> \o CollapseWhitespace(LStrip(s))
         ELSE <<Head(s)>> \o CollapseWhitespace(Tail(s))

\* clean_metric_name
clean_metric_name(m) ==
    IF m = <<>>
    THEN <<>>
    ELSE CollapseWhitespace(
           Replace(Replace(Replace(Strip(m), <<"+">>, <<>>), <<"*">>, <<>>), <<"#">>, <<>>))

MonetaryWords ==
    << <<"s","a","l","e","s">>,
       <<"r","e","v","e","n","u","e">>,
       <<"p","r","o","f","i","t">>,
       <<"i","n","c","o","m","e">>,
       <<"e","x","p","e","n","s","e">>,
       <<"a","s","s","e","t">>,
       <<"l","i","a","b","i","l","i","t","y">>,
       <<"e","q","u","i","t","y">>,
       <<"c","a","s","h">>,
       <<"b","o","r","r","o","w","i","n","g">>,
       <<"i","n","v","e","s","t","m","e","n","t">>,
       <<"m","a","r","k","e","t"," ","c","a","p">>,
       <<"r","e","s","e","r","v","e","s">>,
       <<"f","i","x","e","d"," ","a","s","s","e","t","s">>,
       <<"c","u","r","r","e","n","t"," ","a","s","s","e","t","s">>,
       <<"t","o","t","a","l"," ","a","s","s","e","t","s">>,
       <<"t","o","t","a","l"," ","l","i","a","b","i","l","i","t","i","e","s">> >>

PerShareWords ==
    << <<"e","p","s">>,
       <<"d","i","v","i","d","e","n","d">>,
       <<"b","o","o","k"," ","v","a","l","u","e">>,
       <<"f","a","c","e"," ","v","a","l","u","e">> >>

PercentageWords ==
    << <<"m","a","r","g","i","n">>,
       <<"r","o","e">>,
       <<"r","o","c","e">>,
       <<"r","o","a">>,
       <<"r","a","t","i","o">>,
       <<"y","i","e","l","d">>,
       <<"c","o","v","e","r","a","g","e">>,
       <<"p","a","y","o","u","t">>,
       <<"g","r","o","w","t","h">>,
       <<"t","a","x"," ","%">>,
       <<"o","p","m"," ","%">> >>

RatioWords ==
    << <<"d","e","b","t"," ","t","o"," ","e","q","u","i","t","y">>,
       <<"c","u","r","r","e","n","t"," ","r","a","t","i","o">>,
       <<"q","u","i","c","k"," ","r","a","t","i","o">>,
       <<"p","/","e">>,
       <<"p","/","b">>,
       <<"e","v","/","e","b","i","t","d","a">>,
       <<"i","n","t","e","r","e","s","t"," ","c","o","v","e","r","a","g","e">> >>

DaysWords ==
    << <<"d","a","y","s">>,
       <<"t","u","r","n","o","v","e","r">>,
       <<"c","y","c","l","e">>,
       <<"d","e","b","t","o","r"," ","d","a","y","s">>,
       <<"i","n","v","e","n","t","o","r","y"," ","d","a","y","s">>,
       <<"w","o","r","k","i","n","g"," ","c","a","p","i","t","a","l"," ","d","a","y","s">> >>

PriceWords ==
    << <<"p","r","i","c","e">>,
       <<"c","u","r","r","e","n","t"," ","p","r","i","c","e">> >>

\* any(word in metric_lower for word in words)
AnyWordIn(words, s) == \E i \in DOMAIN words : Contains(s, words[i])

\* infer_unit; the statement argument is not read
infer_unit(m, statement) ==
    LET metric_lower == Lower(clean_metric_name(m))
    IN  IF AnyWordIn(MonetaryWords, metric_lower) THEN "INR Crores"
        ELSE IF AnyWordIn(PerShareWords, metric_lower) THEN "INR"
        ELSE IF AnyWordIn(PercentageWords, metric_lower) THEN "Percentage"
        ELSE IF AnyWordIn(RatioWords, metric_lower) THEN "Ratio"
        ELSE IF AnyWordIn(DaysWords, metric_lower) THEN "Days"
        ELSE IF AnyWordIn(PriceWords, metric_lower) THEN "INR"
        ELSE "Number"

(***************************************************************************)
(* Table parsing and flattening.  A Python dict is a sequence of           *)
(* <<key, value>> pairs in insertion order; assigning to a key that is     *)
(* present replaces its value in place.                                    *)
(***************************************************************************)
MAX_YEARS == 6

SOURCE == "Screener.in"

DictKeys(d) == { d[i][1] : i \in DOMAIN d }

\* d.get(k, default)
DictGet(d, k, default) ==
    IF k \in DictKeys(d)
    THEN d[CHOOSE i \in DOMAIN d : d[i][1] = k][2]
    ELSE default

\* d[k] = v
DictSet(d, k, v) ==
    IF k \in DictKeys(d)
    THEN [i \in DOMAIN d |-> IF d[i][1] = k THEN <<k, v>> ELSE d[i]]
    ELSE Append(d, <<k, v>>)

\* s[1:]
Rest(s) == IF s = <<>> THEN <<>> ELSE Tail(s)

\* s[-n:]
LastN(s, n) == IF Len(s) <= n THEN s ELSE SubSeq(s, Len(s) - n + 1, Len(s))

\* where re.search(r"(20\d{2})", h) matches first, 0 if nowhere
YearAt(h) ==
    LET hits == { i \in 1..(Len(h) - 3) :
                    /\ h[i] = "2"
                    /\ h[i + 1] = "0"
                    /\ IsDigit(h[i + 2])
                    /\ IsDigit(h[i + 3]) }
    IN  IF hits = {} THEN 0 ELSE CHOOSE i \in hits : \A j \in hits : i <= j

HasYear(h) == YearAt(h) # 0

\* re.search(r"(20\d{2})", h).group(1)
YearOf(h) == SubSeq(h, YearAt(h), YearAt(h) + 3)

\* line 158: the years of the header cells after the first, in order
RECURSIVE YearsIn(_)
YearsIn(cells) ==
    IF cells = <<>> THEN <<>>
    ELSE (IF HasYear(Head(cells)) THEN <<YearOf(Head(cells))>> ELSE <<>>)
         \o YearsIn(Tail(cells))

\* lines 158-159: the retained year axis
YearAxis(headers) == LastN(YearsIn(Rest(headers)), MAX_YEARS)

\* lines 168-170: the {year: value} dict of one row
RECURSIVE RowValues(_, _, _, _)
RowValues(years, values, i, acc) ==
    IF i > Len(years) THEN acc
    ELSE RowValues(years, values, i + 1,
                   DictSet(acc, years[i],
                           IF i <= Len(values)
                           THEN clean_numeric_value(values[i])
                           ELSE <<>>))

\* lines 162-170: the loop over the body trs
RECURSIVE ParseRows(_, _, _)
ParseRows(trs, years, data) ==
    IF trs = <<>> THEN data
    ELSE LET cols == Head(trs)
         IN  IF Len(cols) < 2
             THEN ParseRows(Tail(trs), years, data)
             ELSE ParseRows(Tail(trs), years,
                            DictSet(data, cols[1],
                                    RowValues(years, Tail(cols), 1, <<>>)))

\* parse_financial_table; the argument is <<>> when the selector found
\* nothing and <<table>> otherwise
parse_financial_table(table) ==
    IF table = <<>>
    THEN <<>>
    ELSE ParseRows(table[1].rows, YearAxis(table[1].headers), <<>>)

Statements == <<"Profit & Loss", "Balance Sheet", "Cash Flow", "Ratios">>

\* lines 140-151 of fetch_screener_data: the name and the four tables of a
\* page that was fetched
PageContent(sym, pg) ==
    [company_name |-> IF pg.h1 = <<>> THEN sym ELSE pg.h1[1],
     tables |-> [s \in DOMAIN Statements |->
                    <<Statements[s],
                      << <<"Summary", parse_financial_table(pg.tables[s])>> >> >>]]

all_years ==
    << <<"2","0","1","9">>, <<"2","0","2","0">>, <<"2","0","2","1">>,
       <<"2","0","2","2">>, <<"2","0","2","3">>, <<"2","0","2","4">>,
       <<"2","0","2","5">> >>

DigitValue(c) == CHOOSE n \in 0..9 : <<"0","1","2","3","4","5","6","7","8","9">>[n + 1] = c

\* int(year)
RECURSIVE ToInt(_)
ToInt(s) ==
    IF s = <<>> THEN 0
    ELSE 10 * ToInt(SubSeq(s, 1, Len(s) - 1)) + DigitValue(s[Len(s)])

\* lines 213-223
Record(comp, sym, statement, section, metric, year, v) ==
    [Company |-> comp,
     Symbol |-> sym,
     Statement |-> statement,
     Section |-> section,
     Metric |-> clean_metric_name(metric),
     Year |-> ToInt(year),
     Value |-> v,
     Unit |-> infer_unit(metric, statement),
     Source |-> SOURCE]

\* the loop over the years without its "if value"
RECURSIVE MetricRecords_keep_empty(_, _, _, _, _, _, _)
MetricRecords_keep_empty(comp, sym, statement, section, metric, year_values, i) ==
    IF i > Len(all_years) THEN <<>>
    ELSE <<Record(comp, sym, statement, section, metric, all_years[i],
                  DictGet(year_values, all_years[i], <<>>))>>
         \o MetricRecords_keep_empty(comp, sym, statement, section, metric, year_values, i + 1)

\* lines 210-223: the records of one metric
RECURSIVE MetricRecords(_, _, _, _, _, _, _)
MetricRecords(comp, sym, statement, section, metric, year_values, i) ==
    IF i > Len(all_years) THEN <<>>
    ELSE LET v == DictGet(year_values, all_years[i], <<>>)
         IN  (IF v # <<>>
              THEN <<Record(comp, sym, statement, section, metric, all_years[i], v)>>
              ELSE <<>>)
             \o MetricRecords(comp, sym, statement, section, metric, year_values, i + 1)

\* lines 209-223: the records of one section
RECURSIVE SectionRecords(_, _, _, _, _)
SectionRecords(comp, sym, statement, section, metrics) ==
    IF metrics = <<>> THEN <<>>
    ELSE MetricRecords(comp, sym, statement, section,
                       Head(metrics)[1], Head(metrics)[2], 1)
         \o SectionRecords(comp, sym, statement, section, Tail(metrics))

\* lines 208-223: the records of one statement
RECURSIVE StatementRecords(_, _, _, _)
StatementRecords(comp, sym, statement, sections) ==
    IF sections = <<>> THEN <<>>
    ELSE SectionRecords(comp, sym, statement, Head(sections)[1], Head(sections)[2])
         \o StatementRecords(comp, sym, statement, Tail(sections))

\* create_normalized_rows
RECURSIVE create_normalized_rows(_, _, _)
create_normalized_rows(comp, sym, tbls) ==
    IF tbls = <<>> THEN <<>>
    ELSE StatementRecords(comp, sym, Head(tbls)[1], Head(tbls)[2])
         \o create_normalized_rows(comp, sym, Tail(tbls))

\* the inputs the resolver is run on: every short string over a few
\* characters of each class, and every dictionary key and symbol in three
\* letter cases with and without surrounding whitespace
InputChars == {"t", "c", "s", " ", "1"}

Capitalize(s) == IF s = <<>> THEN s ELSE <<UpperChar(Head(s))>> \o Lower(Tail(s))

CaseVariants(s) == { Lower(s), Upper(s), Capitalize(s) }

Padded(s) == { s, <<" ">> \o s, s \o <<" ">>, <<" ">> \o s \o <<"\t">> }

NamedInputs ==
    UNION { Padded(v) : v \in UNION { CaseVariants(w) : w \in PatternKeys \cup PatternSymbols } }

ResolveInputs == BoundedStrings(InputChars, MaxLen) \cup NamedInputs

ResolveStart(input) ==
    /\ company_name = input
    /\ rpc = "start"
    /\ name = <<>>
    /\ tokens = <<>>
    /\ tok = 0
    /\ calls = <<>>
    /\ result = <<>>

\* an entry of the history: the lookup, whether its request failed, and
\* what it returned
Call(service, query, kind, ret) ==
    [service |-> service, query |-> query, failed |-> kind \in ErrorKinds, ret |-> ret]

\* lines 44-47: the guard on the argument, then the normalisation
Validate ==
    /\ rpc = "start"
    /\ IF IsBlank(company_name)
       THEN /\ rpc' = "raised"
            /\ UNCHANGED name
       ELSE /\ rpc' = "dict"
            /\ name' = Normalize(company_name)
    /\ UNCHANGED <<company_name, tokens, tok, calls, result>>

\* lines 65-66: the static dictionary
DictLookup ==
    /\ rpc = "dict"
    /\ IF name \in PatternKeys
       THEN /\ result' = PatternLookup(name)
            /\ rpc' = "done"
       ELSE /\ rpc' = "yahoo"
            /\ UNCHANGED result
    /\ UNCHANGED <<company_name, name, tokens, tok, calls>>

\* a lookup that does not lead to the next step: the exception it raises
\* leaves resolve_nse_symbol too, the symbol it finds is returned
LookupEnds(r) ==
    /\ r.exc \/ r.val # <<>>
    /\ IF r.exc
       THEN rpc' = "raised" /\ UNCHANGED result
       ELSE rpc' = "done" /\ result' = r.val

NoMatch(r) == ~r.exc /\ r.val = <<>>

\* lines 69-71: finance search on the whole name
YahooWhole ==
    /\ rpc = "yahoo"
    /\ \E resp \in YahooResponses :
          LET r == search_yahoo_symbol(name, resp)
          IN  /\ calls' = Append(calls, Call("yahoo", name, resp.kind, r.val))
              /\ \/ LookupEnds(r)
                 \/ NoMatch(r) /\ rpc' = "screener" /\ UNCHANGED result
    /\ UNCHANGED <<company_name, name, tokens, tok>>

\* lines 74-79: site search on the whole name, then the loop is entered
ScreenerWhole ==
    /\ rpc = "screener"
    /\ \E resp \in ScreenerResponses :
          LET r == search_screener_symbol(name, resp)
          IN  /\ calls' = Append(calls, Call("screener", name, resp.kind, r.val))
              /\ \/ LookupEnds(r) /\ UNCHANGED <<tokens, tok>>
                 \/ /\ NoMatch(r)
                    /\ tokens' = Split(name)
                    /\ tok' = 1
                    /\ rpc' = IF Split(name) = <<>> THEN "fallback" ELSE "yahoo_token"
                    /\ UNCHANGED result
    /\ UNCHANGED <<company_name, name>>

\* lines 80-82: finance search on the current token
YahooToken ==
    /\ rpc = "yahoo_token"
    /\ \E resp \in YahooResponses :
          LET r == search_yahoo_symbol(tokens[tok], resp)
          IN  /\ calls' = Append(calls, Call("yahoo", tokens[tok], resp.kind, r.val))
              /\ \/ LookupEnds(r)
                 \/ NoMatch(r) /\ rpc' = "screener_token" /\ UNCHANGED result
    /\ UNCHANGED <<company_name, name, tokens, tok>>

\* ScreenerToken leaving the loop after the first token
ScreenerToken_first_token_only ==
    /\ rpc = "screener_token"
    /\ \E resp \in ScreenerResponses :
          LET r == search_screener_symbol(tokens[tok], resp)
          IN  /\ calls' = Append(calls, Call("screener", tokens[tok], resp.kind, r.val))
              /\ \/ LookupEnds(r) /\ UNCHANGED tok
                 \/ /\ NoMatch(r)
                    /\ tok' = tok + 1
                    /\ rpc' = "fallback"
                    /\ UNCHANGED result
    /\ UNCHANGED <<company_name, name, tokens>>

\* lines 84-86: site search on the current token, then the next token
ScreenerToken ==
    /\ rpc = "screener_token"
    /\ \E resp \in ScreenerResponses :
          LET r == search_screener_symbol(tokens[tok], resp)
          IN  /\ calls' = Append(calls, Call("screener", tokens[tok], resp.kind, r.val))
              /\ \/ LookupEnds(r) /\ UNCHANGED tok
                 \/ /\ NoMatch(r)
                    /\ tok' = tok + 1
                    /\ rpc' = IF tok < Len(tokens) THEN "yahoo_token" ELSE "fallback"
                    /\ UNCHANGED result
    /\ UNCHANGED <<company_name, name, tokens>>

\* line 89: the last resort
Fallback ==
    /\ rpc = "fallback"
    /\ result' = generate_symbol_fallback(name)
    /\ rpc' = "done"
    /\ UNCHANGED <<company_name, name, tokens, tok, calls>>

resolve_nse_symbol ==
    \/ Validate
    \/ DictLookup
    \/ YahooWhole
    \/ ScreenerWhole
    \/ YahooToken
    \/ ScreenerToken
    \/ Fallback

ResolveReturned == rpc \in {"done", "raised"}

\* the variables of the other functions, at rest
CleanIdle == value = <<>> /\ cpc = "idle" /\ cleaned = <<>> /\ recleaned = <<>>

UnitIdle == metric_name = <<>> /\ upc = "idle" /\ unit = ""

TableIdle ==
    /\ page = <<>>
    /\ symbol = <<>>
    /\ tpc = "idle"
    /\ company = <<>>
    /\ tables = <<>>
    /\ rows = <<>>

ResolveIdle ==
    /\ company_name = <<>>
    /\ rpc = "idle"
    /\ name = <<>>
    /\ tokens = <<>>
    /\ tok = 0
    /\ calls = <<>>
    /\ result = <<>>

FindIdle == user_input = <<>> /\ fpc = "idle" /\ best_symbol = <<>>

CollectIdle ==
    /\ script = ""
    /\ topic = <<>>
    /\ kpc = "idle"
    /\ fetch_log = <<>>
    /\ collected = <<>>
    /\ saved = <<>>

ModulesIdle == FindIdle /\ CollectIdle

PipelineIdle ==
    /\ source = <<>>
    /\ ppc = "idle"
    /\ company_inputs = <<>>
    /\ idx = 0
    /\ all_rows = <<>>
    /\ csv_file = <<>>
    /\ success = FALSE
    /\ exit_code = -1

InitResolve ==
    /\ \E input \in ResolveInputs : ResolveStart(input)
    /\ CleanIdle
    /\ UnitIdle
    /\ TableIdle
    /\ PipelineIdle
    /\ ModulesIdle

NextResolve == resolve_nse_symbol /\ UNCHANGED <<cleanVars, unitVars, tableVars, pipeVars, moduleVars>>

\* the function runs to its return: nothing else is scheduled
SpecResolve == InitResolve /\ [][NextResolve]_vars /\ WF_vars(NextResolve)

(***************************************************************************)
(* clean_numeric_value applied to a cell text, then to its own result.     *)
(***************************************************************************)
CellChars == {"1", "-", ",", "%", ".", " ", "N", "A", "/"}

CellTexts == BoundedStrings(CellChars, MaxCellLen)

InitClean ==
    /\ value \in CellTexts
    /\ cpc = "start"
    /\ cleaned = <<>>
    /\ recleaned = <<>>
    /\ ResolveIdle
    /\ UnitIdle
    /\ TableIdle
    /\ PipelineIdle
    /\ ModulesIdle

CleanOnce ==
    /\ cpc = "start"
    /\ cleaned' = clean_numeric_value(value)
    /\ cpc' = "once"
    /\ UNCHANGED <<value, recleaned>>
    /\ UNCHANGED <<resolveVars, unitVars, tableVars, pipeVars, moduleVars>>

CleanAgain ==
    /\ cpc = "once"
    /\ recleaned' = clean_numeric_value(cleaned)
    /\ cpc' = "twice"
    /\ UNCHANGED <<value, cleaned>>
    /\ UNCHANGED <<resolveVars, unitVars, tableVars, pipeVars, moduleVars>>

NextClean == CleanOnce \/ CleanAgain

SpecClean == InitClean /\ [][NextClean]_vars

(***************************************************************************)
(* infer_unit applied to a metric label.                                   *)
(***************************************************************************)
MetricWords ==
    { <<"N","e","t">>,
      <<"S","a","l","e","s">>,
      <<"E","P","S">>,
      <<"i","n">>,
      <<"R","s">>,
      <<"R","O","E">>,
      <<"%">>,
      <<"D","e","b","t">>,
      <<"t","o">>,
      <<"E","q","u","i","t","y">>,
      <<"W","o","r","k","i","n","g">>,
      <<"C","a","p","i","t","a","l">>,
      <<"D","a","y","s">>,
      <<"U","n","k","n","o","w","n">>,
      <<"M","e","t","r","i","c">>,
      <<"O","p","e","r","a","t","i","n","g">>,
      <<"P","r","o","f","i","t">>,
      <<"M","a","r","g","i","n">>,
      <<"P","r","i","c","e">>,
      <<"G","r","o","w","t","h">>,
      <<"C","u","r","r","e","n","t">>,
      <<"R","a","t","i","o">>,
      <<"+">> }

ExampleMetrics ==
    { <<"N","e","t"," ","S","a","l","e","s">>,
      <<"E","P","S"," ","i","n"," ","R","s">>,
      <<"R","O","E"," ","%">>,
      <<"D","e","b","t"," ","t","o"," ","E","q","u","i","t","y">>,
      <<"W","o","r","k","i","n","g"," ","C","a","p","i","t","a","l"," ","D","a","y","s">>,
      <<"U","n","k","n","o","w","n"," ","M","e","t","r","i","c">>,
      <<"O","p","e","r","a","t","i","n","g"," ","P","r","o","f","i","t"," ","M","a","r","g","i","n"," ","%">> }

RECURSIVE JoinWords(_)
JoinWords(ws) ==
    IF ws = <<>> THEN <<>>
    ELSE IF Len(ws) = 1 THEN Head(ws)
    ELSE Head(ws) \o <<" ">> \o JoinWords(Tail(ws))

MetricLabels ==
    ExampleMetrics \cup { JoinWords(ws) : ws \in BoundedLists(MetricWords, MaxWords) }

InitUnit ==
    /\ metric_name \in MetricLabels
    /\ upc = "start"
    /\ unit = ""
    /\ ResolveIdle
    /\ CleanIdle
    /\ TableIdle
    /\ PipelineIdle
    /\ ModulesIdle

InferUnit ==
    /\ upc = "start"
    /\ unit' = infer_unit(metric_name, "Profit & Loss")
    /\ upc' = "done"
    /\ UNCHANGED metric_name
    /\ UNCHANGED <<resolveVars, cleanVars, tableVars, pipeVars, moduleVars>>

NextUnit == InferUnit

SpecUnit == InitUnit /\ [][NextUnit]_vars

(***************************************************************************)
(* One company page fetched, parsed and flattened.                         *)
(***************************************************************************)
DigitChars == <<"0","1","2","3","4","5","6","7","8","9">>

\* the text of a year of this century
YearText(y) == <<"2", "0", DigitChars[((y \div 10) % 10) + 1], DigitChars[(y % 10) + 1]>>

\* a header cell as the site writes it
HeaderCell(y) == <<"M","a","r"," ">> \o YearText(y)

\* a header cell that names no year
TrailingTwelveMonths == <<"T","T","M">>

StartYears == {2018, 2020}

\* wide tables: a run of n consecutive years from y0, with or without a
\* column that names no year before or after them
WideHeader(y0, n, extra) ==
    << <<>> >>
    \o (IF extra = "first" THEN <<TrailingTwelveMonths>> ELSE <<>>)
    \o [j \in 1..n |-> HeaderCell(y0 + j - 1)]
    \o (IF extra = "last" THEN <<TrailingTwelveMonths>> ELSE <<>>)

WideHeaders ==
    { WideHeader(y0, n, extra) :
        y0 \in StartYears, n \in 1..MaxCols, extra \in {"none", "first", "last"} }

\* the text of a filled cell tells its column: "1,3" in the third
FilledCell(j) == <<"1", ",", DigitChars[j + 1]>>

SalesLabel == <<"S","a","l","e","s">>

\* rows of at most ncols value cells, each cell filled or a dash
WideRows(ncols) ==
    UNION { { <<SalesLabel>> \o [j \in 1..k |-> IF j \in filled THEN FilledCell(j) ELSE <<"-">>] :
                filled \in SUBSET (1..k) } :
            k \in 0..ncols }

WideTables ==
    UNION { { [headers |-> h, rows |-> <<r>>] : r \in WideRows(Len(h) - 1) } : h \in WideHeaders }

\* narrow tables: three years, a few rows whose labels may clean to the
\* same metric name
NarrowHeader == << <<>>, HeaderCell(2022), HeaderCell(2023), HeaderCell(2024) >>

NarrowLabels == { SalesLabel, SalesLabel \o <<"+">>, <<"E","P","S">> }

NarrowRows ==
    { <<l, c1, c2, c3>> :
        l \in NarrowLabels,
        c1 \in { <<"1",",","2","0","0">>, <<"-">> },
        c2 \in { <<"-">> },
        c3 \in { <<"9","8","0">>, <<>> } }

NarrowTables ==
    { [headers |-> NarrowHeader, rows |-> rs] : rs \in BoundedLists(NarrowRows, MaxRows) }

RatiosTable ==
    [headers |-> NarrowHeader,
     rows |-> << <<<<"R","O","C","E"," ","%">>, <<"2", "1", "%">>, <<"N", "A">>, <<"2", "3", "%">> >> >>]

\* the row of the flattening example under its three years
ExampleTable ==
    [headers |-> NarrowHeader,
     rows |-> << <<SalesLabel, <<"1",",","2","0","0">>, <<"-">>, <<"9","8","0">>>> >>]

PageTitle == <<"T","C","S"," ","L","t","d">>

FetchedSymbol == <<"T","C","S">>

\* the pages a fetch may return: the first table is the one that varies
Pages ==
    { [h1 |-> <<PageTitle>>, tables |-> << <<t>>, <<>>, <<>>, <<>> >>] : t \in WideTables }
    \cup { [h1 |-> <<PageTitle>>, tables |-> << <<t>>, <<>>, <<>>, r >>] :
             t \in NarrowTables, r \in { <<>>, <<RatiosTable>> } }

InitTable ==
    /\ page \in Pages
    /\ symbol = FetchedSymbol
    /\ tpc = "start"
    /\ company = <<>>
    /\ tables = <<>>
    /\ rows = <<>>
    /\ ResolveIdle
    /\ CleanIdle
    /\ UnitIdle
    /\ PipelineIdle
    /\ ModulesIdle

\* lines 140-151 and 252: the page is parsed
FetchData ==
    /\ tpc = "start"
    /\ company' = PageContent(symbol, page).company_name
    /\ tables' = PageContent(symbol, page).tables
    /\ tpc' = "fetched"
    /\ UNCHANGED <<page, symbol, rows>>
    /\ UNCHANGED <<resolveVars, cleanVars, unitVars, pipeVars, moduleVars>>

\* line 254: the tables are flattened
NormalizeRows ==
    /\ tpc = "fetched"
    /\ rows' = create_normalized_rows(company, symbol, tables)
    /\ tpc' = "normalized"
    /\ UNCHANGED <<page, symbol, company, tables>>
    /\ UNCHANGED <<resolveVars, cleanVars, unitVars, pipeVars, moduleVars>>

NextTable == FetchData \/ NormalizeRows

SpecTable == InitTable /\ [][NextTable]_vars

(***************************************************************************)
(* The pipeline: run_financial_pipeline and the exit of the process.       *)
(***************************************************************************)
\* str.split(",")
RECURSIVE SplitOnComma(_, _, _)
SplitOnComma(s, cur, acc) ==
    IF s = <<>> THEN Append(acc, cur)
    ELSE IF Head(s) = ","
         THEN SplitOnComma(Tail(s), <<>>, Append(acc, cur))
         ELSE SplitOnComma(Tail(s), Append(cur, Head(s)), acc)

\* get_company_input: raised tells whether it raises, inputs is what it
\* returns.  A source is the command line argument, a CSV file named by
\* it, or the line typed at the prompt.
get_company_input(src) ==
    IF src.kind = "arg"
    THEN [raised |-> FALSE, inputs |-> <<Strip(src.text)>>]
    ELSE IF src.kind = "csv"
    THEN IF src.readable
         THEN [raised |-> FALSE, inputs |-> src.column]
         ELSE [raised |-> TRUE, inputs |-> <<>>]
    ELSE IF Strip(src.text) = <<>>
         THEN [raised |-> TRUE, inputs |-> <<>>]
         ELSE LET parts == SplitOnComma(Strip(src.text), <<>>, <<>>)
              IN  [raised |-> FALSE, inputs |-> [i \in DOMAIN parts |-> Strip(parts[i])]]

\* the order of str comparison: the printable characters by code point
\* (the quotation mark, the backslash and the grave accent left out)
PrintableAscii ==
    <<
      " ","!","#","$","%","&","'","(",")","*","+",",","-",".","/",
      "0","1","2","3","4","5","6","7","8","9",":",";","<","=",">","?",
      "@","A","B","C","D","E","F","G","H","I","J","K","L","M","N","O",
      "P","Q","R","S","T","U","V","W","X","Y","Z","[","]","^","_",
      "a","b","c","d","e","f","g","h","i","j","k","l","m","n","o",
      "p","q","r","s","t","u","v","w","x","y","z","{","|","}","~"
    >>

CodePoint(c) == CHOOSE i \in DOMAIN PrintableAscii : PrintableAscii[i] = c

\* a < b for two str
RECURSIVE StrLess(_, _)
StrLess(a, b) ==
    IF b = <<>> THEN FALSE
    ELSE IF a = <<>> THEN TRUE
    ELSE IF Head(a) = Head(b) THEN StrLess(Tail(a), Tail(b))
    ELSE CodePoint(Head(a)) < CodePoint(Head(b))

\* the statement and section names in str order
NameOrder == <<"Balance Sheet", "Cash Flow", "Profit & Loss", "Ratios", "Summary">>

NameRank(n) == CHOOSE i \in DOMAIN NameOrder : NameOrder[i] = n

\* r sorts before q under ["Company","Statement","Section","Metric","Year"]
RecordLess(r, q) ==
    IF r.Company # q.Company THEN StrLess(r.Company, q.Company)
    ELSE IF r.Statement # q.Statement THEN NameRank(r.Statement) < NameRank(q.Statement)
    ELSE IF r.Section # q.Section THEN NameRank(r.Section) < NameRank(q.Section)
    ELSE IF r.Metric # q.Metric THEN StrLess(r.Metric, q.Metric)
    ELSE r.Year < q.Year

\* r put into the sorted list after the records that do not sort after it
RECURSIVE InsertSorted(_, _)
InsertSorted(sorted, r) ==
    IF sorted = <<>> THEN <<r>>
    ELSE IF RecordLess(r, Head(sorted)) THEN <<r>> \o sorted
    ELSE <<Head(sorted)>> \o InsertSorted(Tail(sorted), r)

\* df.sort_values(...)
RECURSIVE SortRecords(_, _)
SortRecords(rs, sorted) ==
    IF rs = <<>> THEN sorted
    ELSE SortRecords(Tail(rs), InsertSorted(sorted, Head(rs)))

\* export_to_csv: the lines written, none when there is nothing to export
export_to_csv(rs) == IF rs = <<>> THEN <<>> ELSE SortRecords(rs, <<>>)

\* the names a batch may hold: a dictionary name, a name only the remote
\* lookups or the fallback can resolve, and a blank
BatchNames == { <<"t","c","s">>, <<"z","z">>, <<" ">> }

InputSources ==
    { [kind |-> "arg", text |-> t, readable |-> TRUE, column |-> <<>>] :
        t \in { <<"t","c","s">>, <<" ","z","z">> } }
    \cup { [kind |-> "csv", text |-> <<>>, readable |-> TRUE, column |-> c] :
             c \in BoundedLists(BatchNames, MaxCompanies) }
    \cup { [kind |-> "csv", text |-> <<>>, readable |-> FALSE, column |-> <<>>] }
    \cup { [kind |-> "interactive", text |-> t, readable |-> TRUE, column |-> <<>>] :
             t \in { <<>>, <<" ">>, <<"t","c","s",","," ","z","z">>, <<"t","c","s",",">> } }

\* a table whose two rows clean to the same metric name
TwinRowsTable ==
    [headers |-> NarrowHeader,
     rows |-> << <<SalesLabel, <<"1",",","2","0","0">>, <<"-">>, <<"9","8","0">>>>,
                 <<SalesLabel \o <<"+">>, <<"7">>, <<"8">>, <<"-">> >> >>]

\* what the site answers to the fetch of a company page
CompanyPages ==
    { [h1 |-> <<PageTitle>>, tables |-> << <<ExampleTable>>, <<>>, <<>>, <<RatiosTable>> >>],
      [h1 |-> <<>>, tables |-> << <<TwinRowsTable>>, <<>>, <<>>, <<>> >>],
      [h1 |-> <<>>, tables |-> << <<>>, <<>>, <<>>, <<>> >>] }

\* fetch_screener_data: raised tells whether it raises; the answer is a
\* failed request or a page
fetch_screener_data(sym, resp) ==
    IF ~resp.ok
    THEN [raised |-> TRUE, company_name |-> <<>>, tables |-> <<>>]
    ELSE [raised |-> FALSE,
          company_name |-> PageContent(sym, resp.page).company_name,
          tables |-> PageContent(sym, resp.page).tables]

NoPage == [h1 |-> <<>>, tables |-> << <<>>, <<>>, <<>>, <<>> >>]

FetchResponses ==
    { [ok |-> FALSE, page |-> NoPage] } \cup { [ok |-> TRUE, page |-> p] : p \in CompanyPages }

InitPipeline ==
    /\ source \in InputSources
    /\ ppc = "start"
    /\ company_inputs = <<>>
    /\ idx = 0
    /\ all_rows = <<>>
    /\ csv_file = <<>>
    /\ success = FALSE
    /\ exit_code = -1
    /\ ResolveIdle
    /\ CleanIdle
    /\ UnitIdle
    /\ TableIdle
    /\ ModulesIdle

\* lines 246-247
GetCompanyInput ==
    /\ ppc = "start"
    /\ LET r == get_company_input(source)
       IN  IF r.raised
           THEN /\ ppc' = "except"
                /\ UNCHANGED <<company_inputs, idx>>
           ELSE /\ company_inputs' = r.inputs
                /\ idx' = 1
                /\ ppc' = "loop"
    /\ UNCHANGED <<source, all_rows, csv_file, success, exit_code>>
    /\ UNCHANGED <<resolveVars, cleanVars, unitVars, tableVars, moduleVars>>

\* lines 248-250: the next company of the batch is handed to the resolver
NextCompany ==
    /\ ppc = "loop"
    /\ idx <= Len(company_inputs)
    /\ company_name' = company_inputs[idx]
    /\ rpc' = "start"
    /\ ppc' = "resolve"
    /\ UNCHANGED <<name, tokens, tok, calls, result>>
    /\ UNCHANGED <<source, company_inputs, idx, all_rows, csv_file, success, exit_code>>
    /\ UNCHANGED <<cleanVars, unitVars, tableVars, moduleVars>>

\* line 250: resolve_nse_symbol runs
Resolving ==
    /\ ppc = "resolve"
    /\ resolve_nse_symbol
    /\ UNCHANGED <<cleanVars, unitVars, tableVars, pipeVars, moduleVars>>

\* line 250: resolve_nse_symbol returns the symbol, or raises
Resolved ==
    /\ ppc = "resolve"
    /\ \/ /\ rpc = "done"
          /\ symbol' = result
          /\ ppc' = "fetch"
       \/ /\ rpc = "raised"
          /\ ppc' = "except"
          /\ UNCHANGED symbol
    /\ company_name' = <<>>
    /\ rpc' = "idle"
    /\ name' = <<>>
    /\ tokens' = <<>>
    /\ tok' = 0
    /\ calls' = <<>>
    /\ result' = <<>>
    /\ UNCHANGED <<page, tpc, company, tables, rows>>
    /\ UNCHANGED <<source, company_inputs, idx, all_rows, csv_file, success, exit_code>>
    /\ UNCHANGED <<cleanVars, unitVars, moduleVars>>

\* line 252
FetchScreenerData ==
    /\ ppc = "fetch"
    /\ \E resp \in FetchResponses :
          LET r == fetch_screener_data(symbol, resp)
          IN  /\ page' = resp.page
              /\ IF r.raised
                 THEN /\ ppc' = "except"
                      /\ UNCHANGED <<company, tables>>
                 ELSE /\ company' = r.company_name
                      /\ tables' = r.tables
                      /\ ppc' = "normalize"
    /\ UNCHANGED <<symbol, tpc, rows>>
    /\ UNCHANGED <<source, company_inputs, idx, all_rows, csv_file, success, exit_code>>
    /\ UNCHANGED <<resolveVars, cleanVars, unitVars, moduleVars>>

\* lines 254-256
ExtendAllRows ==
    /\ ppc = "normalize"
    /\ rows' = create_normalized_rows(company, symbol, tables)
    /\ all_rows' = all_rows \o create_normalized_rows(company, symbol, tables)
    /\ idx' = idx + 1
    /\ ppc' = "loop"
    /\ UNCHANGED <<page, symbol, tpc, company, tables>>
    /\ UNCHANGED <<source, company_inputs, csv_file, success, exit_code>>
    /\ UNCHANGED <<resolveVars, cleanVars, unitVars, moduleVars>>

\* the export as it would be if an empty batch of records were an error
ExportToCsv_empty_is_error ==
    /\ ppc = "loop"
    /\ idx > Len(company_inputs)
    /\ \/ /\ all_rows # <<>>
          /\ csv_file' = export_to_csv(all_rows)
          /\ success' = TRUE
          /\ ppc' = "returned"
       \/ /\ ppc' = "except"
          /\ UNCHANGED <<csv_file, success>>
    /\ UNCHANGED <<source, company_inputs, idx, all_rows, exit_code>>
    /\ UNCHANGED <<resolveVars, cleanVars, unitVars, tableVars, moduleVars>>

\* lines 257-265: the export after the last company; writing the file may
\* fail
ExportToCsv ==
    /\ ppc = "loop"
    /\ idx > Len(company_inputs)
    /\ \/ /\ csv_file' = export_to_csv(all_rows)
          /\ success' = TRUE
          /\ ppc' = "returned"
       \/ /\ all_rows # <<>>
          /\ ppc' = "except"
          /\ UNCHANGED <<csv_file, success>>
    /\ UNCHANGED <<source, company_inputs, idx, all_rows, exit_code>>
    /\ UNCHANGED <<resolveVars, cleanVars, unitVars, tableVars, moduleVars>>

\* lines 266-268
ExceptHandler ==
    /\ ppc = "except"
    /\ success' = FALSE
    /\ ppc' = "returned"
    /\ UNCHANGED <<source, company_inputs, idx, all_rows, csv_file, exit_code>>
    /\ UNCHANGED <<resolveVars, cleanVars, unitVars, tableVars, moduleVars>>

\* lines 272-273
SysExit ==
    /\ ppc = "returned"
    /\ exit_code' = IF success THEN 0 ELSE 1
    /\ ppc' = "exited"
    /\ UNCHANGED <<source, company_inputs, idx, all_rows, csv_file, success>>
    /\ UNCHANGED <<resolveVars, cleanVars, unitVars, tableVars, moduleVars>>

run_financial_pipeline ==
    \/ GetCompanyInput
    \/ NextCompany
    \/ Resolving
    \/ Resolved
    \/ FetchScreenerData
    \/ ExtendAllRows
    \/ ExportToCsv
    \/ ExceptHandler

NextPipeline == run_financial_pipeline \/ SysExit

\* the process runs to its exit: nothing else is scheduled
SpecPipeline == InitPipeline /\ [][NextPipeline]_vars /\ WF_vars(NextPipeline)

(***************************************************************************)
(* The symbol matcher of modules/data_collector.py: find_best_symbol.      *)
(***************************************************************************)
\* the dictionary, as <<name, symbol>> pairs in source order
company_symbols ==
    << <<<<"T","C","S">>,
         <<"T","C","S">>>>,
       <<<<"I","N","F","O","S","Y","S">>,
         <<"I","N","F","Y">>>>,
       <<<<"R","E","L","I","A","N","C","E">>,
         <<"R","E","L","I","A","N","C","E">>>>,
       <<<<"H","D","F","C"," ","B","A","N","K">>,
         <<"H","D","F","C","B","A","N","K">>>>,
       <<<<"A","M","A","Z","O","N">>,
         <<"A","M","Z","N">>>>,
       <<<<"G","O","O","G","L","E">>,
         <<"G","O","O","G","L">>>>,
       <<<<"M","I","C","R","O","S","O","F","T">>,
         <<"M","S","F","T">>>> >>

\* company_symbols.keys() and company_symbols.values(), in dict order
SymbolKeys == [i \in DOMAIN company_symbols |-> company_symbols[i][1]]

SymbolValues == [i \in DOMAIN company_symbols |-> company_symbols[i][2]]

\* SequenceMatcher.find_longest_match on a[alo..ahi] and b[blo..bhi]: the
\* longest common block <<i, j, k>>, of those the one starting earliest in
\* a, of those the one starting earliest in b; k is 0 when nothing matches
LongestMatch(a, b, alo, ahi, blo, bhi) ==
    LET blocks == { m \in (alo..ahi) \X (blo..bhi) \X (1..Len(b)) :
                      /\ m[1] + m[3] - 1 <= ahi
                      /\ m[2] + m[3] - 1 <= bhi
                      /\ SubSeq(a, m[1], m[1] + m[3] - 1)
                            = SubSeq(b, m[2], m[2] + m[3] - 1) }
        Before(m, q) ==
            \/ m[3] > q[3]
            \/ m[3] = q[3] /\ m[1] < q[1]
            \/ m[3] = q[3] /\ m[1] = q[1] /\ m[2] < q[2]
    IN  IF blocks = {} THEN <<alo, blo, 0>>
        ELSE CHOOSE m \in blocks : \A q \in blocks : q = m \/ Before(m, q)

\* the total size of SequenceMatcher.get_matching_blocks: the longest
\* block, then the same to its left and to its right
RECURSIVE MatchingCount(_, _, _, _, _, _)
MatchingCount(a, b, alo, ahi, blo, bhi) ==
    LET m == LongestMatch(a, b, alo, ahi, blo, bhi)
    IN  IF m[3] = 0 THEN 0
        ELSE m[3]
             + MatchingCount(a, b, alo, m[1] - 1, blo, m[2] - 1)
             + MatchingCount(a, b, m[1] + m[3], ahi, m[2] + m[3], bhi)

\* SequenceMatcher(None, a, b).ratio() = 2.0 * matches / length as the
\* fraction <<2 * matches, length>>, 1.0 when both are empty
Ratio(a, b) ==
    IF Len(a) + Len(b) = 0 THEN <<1, 1>>
    ELSE <<2 * MatchingCount(a, b, 1, Len(a), 1, Len(b)), Len(a) + Len(b)>>

\* difflib.get_close_matches(word, possibilities, n=1, cutoff=tenths/10):
\* the possibility of the greatest ratio not below the cutoff, the greatest
\* str among equals; the two quick ratios are upper bounds of ratio() and
\* filter nothing more
get_close_matches(word, possibilities, tenths) ==
    LET score(i) == Ratio(possibilities[i], word)
        close == { i \in DOMAIN possibilities :
                     10 * score(i)[1] >= tenths * score(i)[2] }
        Greater(i, j) ==
            \/ score(i)[1] * score(j)[2] > score(j)[1] * score(i)[2]
            \/ /\ score(i)[1] * score(j)[2] = score(j)[1] * score(i)[2]
               /\ StrLess(possibilities[j], possibilities[i])
    IN  IF close = {} THEN <<>>
        ELSE << possibilities[CHOOSE i \in close : \A j \in close : ~Greater(j, i)] >>

\* find_best_symbol without line 21: the input is matched as typed
find_best_symbol_case_sensitive(input) ==
    IF input \in DictKeys(company_symbols)
    THEN DictGet(company_symbols, input, <<>>)
    ELSE IF \E i \in DOMAIN company_symbols : input = Upper(company_symbols[i][2])
    THEN LET i == CHOOSE i \in DOMAIN company_symbols :
                    /\ input = Upper(company_symbols[i][2])
                    /\ \A j \in 1..(i - 1) : input # Upper(company_symbols[j][2])
         IN  company_symbols[i][2]
    ELSE IF get_close_matches(input, SymbolKeys, 6) # <<>>
    THEN DictGet(company_symbols, get_close_matches(input, SymbolKeys, 6)[1], <<>>)
    ELSE IF get_close_matches(input, SymbolValues, 6) # <<>>
    THEN get_close_matches(input, SymbolValues, 6)[1]
    ELSE input

\* find_best_symbol, lines 19-43
find_best_symbol(input) ==
    LET upper == Upper(input)
    IN  IF upper \in DictKeys(company_symbols)
        THEN DictGet(company_symbols, upper, <<>>)
        ELSE IF \E i \in DOMAIN company_symbols : upper = Upper(company_symbols[i][2])
        THEN LET i == CHOOSE i \in DOMAIN company_symbols :
                        /\ upper = Upper(company_symbols[i][2])
                        /\ \A j \in 1..(i - 1) : upper # Upper(company_symbols[j][2])
             IN  company_symbols[i][2]
        ELSE IF get_close_matches(upper, SymbolKeys, 6) # <<>>
        THEN DictGet(company_symbols, get_close_matches(upper, SymbolKeys, 6)[1], <<>>)
        ELSE IF get_close_matches(upper, SymbolValues, 6) # <<>>
        THEN get_close_matches(upper, SymbolValues, 6)[1]
        ELSE upper

\* the inputs: every short string over a few letters of both cases, and
\* every name and symbol of the dictionary in three letter cases
FindChars == {"t", "C", "s", "M", "f", "z"}

FindInputs ==
    BoundedStrings(FindChars, MaxLen)
    \cup UNION { CaseVariants(company_symbols[i][1]) \cup CaseVariants(company_symbols[i][2]) :
                   i \in DOMAIN company_symbols }

InitFind ==
    /\ user_input \in FindInputs
    /\ fpc = "start"
    /\ best_symbol = <<>>
    /\ CollectIdle
    /\ ResolveIdle
    /\ CleanIdle
    /\ UnitIdle
    /\ TableIdle
    /\ PipelineIdle

FindBestSymbol ==
    /\ fpc = "start"
    /\ best_symbol' = find_best_symbol(user_input)
    /\ fpc' = "done"
    /\ UNCHANGED user_input
    /\ UNCHANGED <<resolveVars, cleanVars, unitVars, tableVars, pipeVars, collectVars>>

NextFind == FindBestSymbol

SpecFind == InitFind /\ [][NextFind]_vars

(***************************************************************************)
(* The collectors of modules/senti_analys.py (run) and of                  *)
(* modules/senti_analysyahoofinanc.py (collect_finance_news).  What a       *)
(* remote source answers is chosen when it is fetched; fetch_log keeps, in  *)
(* call order, which source was fetched and whether the fetch met a         *)
(* failure, collected the items it returned.                                *)
(***************************************************************************)
\* the texts a source may hold
ItemTexts == { <<"T","C","S"," ","u","p">>, <<"o","i","l">> }

\* an attribute or field that may be missing: <<>> or <<text>>
Optional(texts) == {<<>>} \cup { <<t>> : t \in texts }

nitter_instances ==
    <<"https://nitter.net", "https://nitter.privacydev.net", "https://nitter.lacontrevoie.fr">>

\* fetch_twitter: answers[i] is what instance i answers, an error of the
\* request or a page with its tweets; the tweets of the first instance
\* that has some, the first limit of them
fetch_twitter(answers, limit) ==
    LET found == { i \in DOMAIN answers :
                     answers[i].kind = "page" /\ answers[i].tweets # <<>> }
    IN  IF found = {} THEN <<>>
        ELSE Prefix(answers[CHOOSE i \in found : \A j \in found : i <= j].tweets, limit)

\* fetch_youtube_comments: an error anywhere in the try and a search page
\* without a video give the empty list
fetch_youtube_comments(answer, limit) ==
    IF answer.kind = "comments" THEN Prefix(answer.texts, limit) ELSE <<>>

\* fetch_google_news: feedparser.parse reports a failed request in the feed
\* (no entries) and raises nothing; entry.title and entry.summary raise
\* AttributeError on an entry without the field, and nothing catches it
fetch_google_news(feed, limit) ==
    LET entries == Prefix(feed.entries, limit)
    IN  IF \E i \in DOMAIN entries : entries[i].title = <<>> \/ entries[i].summary = <<>>
        THEN [raised |-> TRUE, texts |-> <<>>]
        ELSE [raised |-> FALSE,
              texts |-> [i \in DOMAIN entries |->
                           entries[i].title[1] \o <<" ">> \o entries[i].summary[1]]]

\* fetch_hackernews: hit["title"] or ""
fetch_hackernews(answer) ==
    IF answer.kind = "hits"
    THEN [i \in DOMAIN answer.titles |->
            IF answer.titles[i] = <<>> THEN <<>> ELSE answer.titles[i][1]]
    ELSE <<>>

\* the score of the third-party analyzer, a function of the text
get_sentiment(text) == <<"compound", text>>

\* lines 112-122 of run: one row per item, source by source
RECURSIVE SentimentRows(_)
SentimentRows(coll) ==
    IF coll = <<>> THEN <<>>
    ELSE [i \in DOMAIN Head(coll)[2] |->
            [source |-> Head(coll)[1],
             text |-> Head(coll)[2][i],
             sentiment |-> get_sentiment(Head(coll)[2][i])]]
         \o SentimentRows(Tail(coll))

\* line 106
FetchTwitter ==
    /\ script = "senti_analys"
    /\ kpc = "twitter"
    /\ \E answers \in [DOMAIN nitter_instances ->
                          {[kind |-> "error", tweets |-> <<>>]}
                          \cup [kind : {"page"}, tweets : BoundedLists(ItemTexts, MaxItems)]] :
          /\ fetch_log' = Append(fetch_log,
                 [source |-> "twitter",
                  failed |-> \A i \in DOMAIN answers : answers[i].kind = "error"])
          /\ collected' = Append(collected, <<"twitter", fetch_twitter(answers, 150)>>)
    /\ kpc' = "youtube"
    /\ UNCHANGED <<script, topic, saved>>
    /\ UNCHANGED <<resolveVars, cleanVars, unitVars, tableVars, pipeVars, findVars>>

\* line 107
FetchYoutubeComments ==
    /\ script = "senti_analys"
    /\ kpc = "youtube"
    /\ \E answer \in {[kind |-> "error", texts |-> <<>>], [kind |-> "no_video", texts |-> <<>>]}
                     \cup [kind : {"comments"}, texts : BoundedLists(ItemTexts, MaxItems)] :
          /\ fetch_log' = Append(fetch_log,
                 [source |-> "youtube", failed |-> answer.kind = "error"])
          /\ collected' = Append(collected, <<"youtube", fetch_youtube_comments(answer, 150)>>)
    /\ kpc' = "news"
    /\ UNCHANGED <<script, topic, saved>>
    /\ UNCHANGED <<resolveVars, cleanVars, unitVars, tableVars, pipeVars, findVars>>

\* line 108: an error raised by fetch_google_news leaves run
FetchGoogleNews ==
    /\ script = "senti_analys"
    /\ kpc = "news"
    /\ \E feed \in {[bozo |-> TRUE, entries |-> <<>>]}
                   \cup [bozo : {FALSE},
                         entries : BoundedLists([title : Optional(ItemTexts),
                                                 summary : Optional(ItemTexts)], MaxItems)] :
          LET r == fetch_google_news(feed, 40)
          IN  /\ fetch_log' = Append(fetch_log,
                     [source |-> "news", failed |-> feed.bozo \/ r.raised])
              /\ IF r.raised
                 THEN /\ kpc' = "raised"
                      /\ UNCHANGED collected
                 ELSE /\ kpc' = "hackernews"
                      /\ collected' = Append(collected, <<"news", r.texts>>)
    /\ UNCHANGED <<script, topic, saved>>
    /\ UNCHANGED <<resolveVars, cleanVars, unitVars, tableVars, pipeVars, findVars>>

\* line 109
FetchHackernews ==
    /\ script = "senti_analys"
    /\ kpc = "hackernews"
    /\ \E answer \in {[kind |-> "error", titles |-> <<>>]}
                     \cup [kind : {"hits"},
                           titles : BoundedLists(Optional(ItemTexts), MaxItems)] :
          /\ fetch_log' = Append(fetch_log,
                 [source |-> "hackernews", failed |-> answer.kind = "error"])
          /\ collected' = Append(collected, <<"hackernews", fetch_hackernews(answer)>>)
    /\ kpc' = "save"
    /\ UNCHANGED <<script, topic, saved>>
    /\ UNCHANGED <<resolveVars, cleanVars, unitVars, tableVars, pipeVars, findVars>>

\* lines 112-140: the rows are built and, when there are some, written
SaveSentiment ==
    /\ script = "senti_analys"
    /\ kpc = "save"
    /\ saved' = SentimentRows(collected)
    /\ kpc' = "done"
    /\ UNCHANGED <<script, topic, fetch_log, collected>>
    /\ UNCHANGED <<resolveVars, cleanVars, unitVars, tableVars, pipeVars, findVars>>

run ==
    \/ FetchTwitter
    \/ FetchYoutubeComments
    \/ FetchGoogleNews
    \/ FetchHackernews
    \/ SaveSentiment

\* company_map of resolve_company, as <<key, <<name, ticker, aliases>>>>
company_map ==
    << <<<<"T","C","S">>,
         <<<<"T","a","t","a"," ","C","o","n","s","u","l","t","a","n","c",
             "y"," ","S","e","r","v","i","c","e","s">>,
           <<"T","C","S",".","N","S">>,
           <<<<"t","c","s">>, <<"t","a","t","a"," ","c","o","n","s","u","l","t","a","n","c",
             "y">>>>>>>>,
       <<<<"I","N","F","O","S","Y","S">>,
         <<<<"I","n","f","o","s","y","s">>,
           <<"I","N","F","Y",".","N","S">>,
           <<<<"i","n","f","o","s","y","s">>>>>>>>,
       <<<<"R","E","L","I","A","N","C","E">>,
         <<<<"R","e","l","i","a","n","c","e"," ","I","n","d","u","s","t",
             "r","i","e","s">>,
           <<"R","E","L","I","A","N","C","E",".","N","S">>,
           <<<<"r","e","l","i","a","n","c","e">>>>>>>>,
       <<<<"H","D","F","C"," ","B","A","N","K">>,
         <<<<"H","D","F","C"," ","B","a","n","k">>,
           <<"H","D","F","C","B","A","N","K",".","N","S">>,
           <<<<"h","d","f","c">>>>>>>>,
       <<<<"A","P","P","L","E">>,
         <<<<"A","p","p","l","e"," ","I","n","c">>,
           <<"A","A","P","L">>,
           <<<<"a","p","p","l","e">>>>>>>>,
       <<<<"M","I","C","R","O","S","O","F","T">>,
         <<<<"M","i","c","r","o","s","o","f","t">>,
           <<"M","S","F","T">>,
           <<<<"m","i","c","r","o","s","o","f","t">>>>>>>>,
       <<<<"G","O","O","G","L","E">>,
         <<<<"A","l","p","h","a","b","e","t">>,
           <<"G","O","O","G","L">>,
           <<<<"g","o","o","g","l","e">>, <<"a","l","p","h","a","b","e","t">>>>>>>>,
       <<<<"A","M","A","Z","O","N">>,
         <<<<"A","m","a","z","o","n">>,
           <<"A","M","Z","N">>,
           <<<<"a","m","a","z","o","n">>>>>>>>,
       <<<<"T","E","S","L","A">>,
         <<<<"T","e","s","l","a">>,
           <<"T","S","L","A">>,
           <<<<"t","e","s","l","a">>>>>>>> >>

\* resolve_company, lines 10-34
resolve_company(company_input) ==
    LET key == Strip(Upper(company_input))
    IN  IF key \in DictKeys(company_map)
        THEN DictGet(company_map, key, <<>>)
        ELSE <<company_input, company_input, <<Lower(company_input)>>>>

\* is_valid_company_news, lines 40-51
is_valid_company_news(text, comp, aliases) ==
    \/ Contains(Lower(text), Lower(comp))
    \/ \E i \in DOMAIN aliases : Contains(Lower(text), aliases[i])

\* fetch_yahoo_news, lines 67-87: the loop over feed.entries; entry.title
\* raises AttributeError on an entry without a title, and nothing catches
\* it
RECURSIVE YahooEntries(_, _, _, _, _)
YahooEntries(entries, news, comp, aliases, limit) ==
    IF entries = <<>> \/ Len(news) >= limit
    THEN [raised |-> FALSE, news |-> news]
    ELSE IF Head(entries).title = <<>>
    THEN [raised |-> TRUE, news |-> <<>>]
    ELSE LET title == Head(entries).title[1]
             summary == IF Head(entries).summary = <<>> THEN <<>> ELSE Head(entries).summary[1]
         IN  YahooEntries(Tail(entries),
                 IF is_valid_company_news(title \o <<" ">> \o summary, comp, aliases)
                 THEN Append(news, [company |-> comp, source |-> "Yahoo Finance",
                                    title |-> title, summary |-> summary])
                 ELSE news,
                 comp, aliases, limit)

\* fetch_yahoo_news: feedparser.parse reports a failed request in the feed
\* (no entries) and raises nothing
fetch_yahoo_news(comp, ticker, aliases, feed, limit) ==
    YahooEntries(feed.entries, <<>>, comp, aliases, limit)

\* fetch_seeking_alpha, lines 93-124: an error of the request leaves news
\* empty; the first limit headlines that name the company
fetch_seeking_alpha(comp, aliases, answer, limit) ==
    LET Valid(title) == is_valid_company_news(title, comp, aliases)
        kept == SelectSeq(answer.titles, Valid)
    IN  IF answer.kind = "error" THEN <<>>
        ELSE [i \in DOMAIN Prefix(kept, limit) |->
                [company |-> comp, source |-> "Seeking Alpha",
                 title |-> kept[i], summary |-> <<>>]]

\* line 136: an error raised by fetch_yahoo_news leaves
\* collect_finance_news
FetchYahooNews ==
    /\ script = "senti_analysyahoofinanc"
    /\ kpc = "yahoo"
    /\ \E feed \in {[bozo |-> TRUE, entries |-> <<>>]}
                   \cup [bozo : {FALSE},
                         entries : BoundedLists([title : Optional(ItemTexts),
                                                 summary : Optional(ItemTexts)], MaxItems)] :
          LET company_info == resolve_company(topic)
              r == fetch_yahoo_news(company_info[1], company_info[2], company_info[3], feed, 60)
          IN  /\ fetch_log' = Append(fetch_log,
                     [source |-> "Yahoo Finance", failed |-> feed.bozo \/ r.raised])
              /\ IF r.raised
                 THEN /\ kpc' = "raised"
                      /\ UNCHANGED collected
                 ELSE /\ kpc' = "seeking_alpha"
                      /\ collected' = Append(collected, <<"Yahoo Finance", r.news>>)
    /\ UNCHANGED <<script, topic, saved>>
    /\ UNCHANGED <<resolveVars, cleanVars, unitVars, tableVars, pipeVars, findVars>>

\* line 137
FetchSeekingAlpha ==
    /\ script = "senti_analysyahoofinanc"
    /\ kpc = "seeking_alpha"
    /\ \E answer \in {[kind |-> "error", titles |-> <<>>]}
                     \cup [kind : {"page"}, titles : BoundedLists(ItemTexts, MaxItems)] :
          LET company_info == resolve_company(topic)
          IN  /\ fetch_log' = Append(fetch_log,
                     [source |-> "Seeking Alpha", failed |-> answer.kind = "error"])
              /\ collected' = Append(collected,
                     <<"Seeking Alpha",
                       fetch_seeking_alpha(company_info[1], company_info[3], answer, 30)>>)
    /\ kpc' = "save"
    /\ UNCHANGED <<script, topic, saved>>
    /\ UNCHANGED <<resolveVars, cleanVars, unitVars, tableVars, pipeVars, findVars>>

\* lines 139-149: the articles are written when there are some
SaveFinanceNews ==
    /\ script = "senti_analysyahoofinanc"
    /\ kpc = "save"
    /\ saved' = collected[1][2] \o collected[2][2]
    /\ kpc' = "done"
    /\ UNCHANGED <<script, topic, fetch_log, collected>>
    /\ UNCHANGED <<resolveVars, cleanVars, unitVars, tableVars, pipeVars, findVars>>

collect_finance_news ==
    \/ FetchYahooNews
    \/ FetchSeekingAlpha
    \/ SaveFinanceNews

\* the companies a collector is started with: a key of company_map in
\* lower case and a name outside it
Topics == { <<"t","c","s">>, <<"O","i","l">> }

InitCollect ==
    /\ script \in {"senti_analys", "senti_analysyahoofinanc"}
    /\ topic \in Topics
    /\ kpc = IF script = "senti_analys" THEN "twitter" ELSE "yahoo"
    /\ fetch_log = <<>>
    /\ collected = <<>>
    /\ saved = <<>>
    /\ FindIdle
    /\ ResolveIdle
    /\ CleanIdle
    /\ UnitIdle
    /\ TableIdle
    /\ PipelineIdle

NextCollect == run \/ collect_finance_news

SpecCollect == InitCollect /\ [][NextCollect]_vars

(***************************************************************************)
(* The claims about symbol resolution.                                     *)
(***************************************************************************)
WhitespaceOnly(s) == \A i \in DOMAIN s : s[i] \in Whitespace

\* C1: for every non-empty, non-whitespace input and whatever the remote
\* lookups come to, resolve_nse_symbol returns a string; a lookup that fails
\* never makes resolve_nse_symbol raise, it counts as "no match" and the
\* next step is taken.
C1_LookupFailureNeverPropagates ==
    /\ [](~WhitespaceOnly(company_name) => rpc # "raised")
    /\ [](\A i \in DOMAIN calls :
             calls[i].failed =>
                /\ calls[i].ret = <<>>
                /\ i = Len(calls) =>
                      \/ rpc \in {"screener", "yahoo_token", "screener_token", "fallback"}
                      \/ /\ rpc = "done"
                         /\ Len(calls) = 2 + 2 * Len(tokens)
                         /\ result = generate_symbol_fallback(name))
    /\ <>(WhitespaceOnly(company_name)
          \/ (rpc = "done" /\ DOMAIN result = 1..Len(result)))

\* every lookup on the whole name and on two tokens failed, and a symbol
\* was returned all the same
C1_Witness ==
    /\ rpc = "done"
    /\ Len(calls) >= 6
    /\ \A i \in DOMAIN calls : calls[i].failed

WellFormedSymbol(s) ==
    /\ s # <<>>
    /\ \A i \in DOMAIN s : IsUpper(s[i]) \/ IsDigit(s[i])

\* C2: every symbol resolve_nse_symbol returns is non-empty, upper-case and
\* made of letters and digits only, whichever step produced it; the
\* fallback returns a non-empty alphabetic string of at most 7 characters.
C2_ReturnedSymbolWellFormed ==
    rpc = "done" =>
        /\ WellFormedSymbol(result)
        /\ (Len(calls) = 2 + 2 * Len(tokens) /\ calls[Len(calls)].ret = <<>>
              => /\ Len(result) \in 1..7
                 /\ \A i \in DOMAIN result : IsAsciiAlpha(result[i]))

\* C3: an empty or whitespace-only input is refused with an error before
\* anything else is done: no normalisation, no dictionary lookup, no remote
\* call, no symbol.
C3_BlankInputRejectedFirst ==
    WhitespaceOnly(company_name) =>
        /\ rpc \in {"start", "raised"}
        /\ name = <<>>
        /\ calls = <<>>
        /\ result = <<>>

\* a whitespace-only input was refused
C3_Witness ==
    /\ company_name # <<>>
    /\ WhitespaceOnly(company_name)
    /\ rpc = "raised"

\* the lookups resolve_nse_symbol issues for an input when none matches
RECURSIVE TokenQueries(_)
TokenQueries(ts) ==
    IF ts = <<>> THEN <<>>
    ELSE << <<"yahoo", Head(ts)>>, <<"screener", Head(ts)>> >> \o TokenQueries(Tail(ts))

ExpectedQueries(input) ==
    IF Normalize(input) \in PatternKeys
    THEN <<>>
    ELSE << <<"yahoo", Normalize(input)>>, <<"screener", Normalize(input)>> >>
         \o TokenQueries(Split(Normalize(input)))

IssuedQueries == [i \in DOMAIN calls |-> <<calls[i].service, calls[i].query>>]

\* C4: the strategies are tried in a strict order (dictionary, finance
\* search and site search on the whole name, then finance search and site
\* search on each token in input order, then the fallback) and the first
\* that succeeds gives the result, no later one being invoked; a dictionary
\* hit issues no remote lookup, and the fallback comes only after every
\* lookup has returned no match.
C4_StrictOrderFirstSuccess ==
    ~WhitespaceOnly(company_name) =>
        /\ Len(calls) <= Len(ExpectedQueries(company_name))
        /\ IssuedQueries = SubSeq(ExpectedQueries(company_name), 1, Len(calls))
        /\ \A i \in DOMAIN calls : i < Len(calls) => calls[i].ret = <<>>
        /\ (calls # <<>> /\ calls[Len(calls)].ret # <<>>
              => rpc = "done" /\ result = calls[Len(calls)].ret)
        /\ (rpc = "done" /\ Normalize(company_name) \in PatternKeys
              => calls = <<>> /\ result = PatternLookup(Normalize(company_name)))
        /\ (rpc = "done" /\ (calls = <<>> \/ calls[Len(calls)].ret = <<>>)
              /\ Normalize(company_name) \notin PatternKeys
              => /\ Len(calls) = Len(ExpectedQueries(company_name))
                 /\ result = generate_symbol_fallback(Normalize(company_name)))
        /\ (company_name \in {<<"t","c","s">>, <<"A","m","b","u","j","a">>} /\ rpc = "done"
              => calls = <<>>
                 /\ result = (IF Len(company_name) = 3
                              THEN <<"T","C","S">>
                              ELSE <<"A","M","B","U","J","A","C","E","M">>))

\* a two-token input went through all six lookups to the fallback
C4_Witness ==
    /\ rpc = "done"
    /\ Len(tokens) = 2
    /\ Len(calls) = 6
    /\ calls[6].ret = <<>>
    /\ result = generate_symbol_fallback(name)

\* C5: for every dictionary entry, resolve_nse_symbol returns the canonical
\* symbol when given the name and when given the symbol itself, in any
\* letter case and with surrounding whitespace, whatever the remote lookups
\* return.
C5_DictionaryNameAndSymbol ==
    rpc = "done" =>
        /\ (Normalize(company_name) \in PatternKeys
              => result = PatternLookup(Normalize(company_name)))
        /\ (Upper(Strip(company_name)) \in PatternSymbols
              => result = Upper(Strip(company_name)))

(***************************************************************************)
(* The claims about cleaning and unit inference.                           *)
(***************************************************************************)
\* the bucket order as the claim gives it: price with the per-share figures
ClaimedUnit(m) ==
    LET metric_lower == Lower(clean_metric_name(m))
    IN  IF AnyWordIn(MonetaryWords, metric_lower) THEN "INR Crores"
        ELSE IF AnyWordIn(PerShareWords \o PriceWords, metric_lower) THEN "INR"
        ELSE IF AnyWordIn(PercentageWords, metric_lower) THEN "Percentage"
        ELSE IF AnyWordIn(RatioWords, metric_lower) THEN "Ratio"
        ELSE IF AnyWordIn(DaysWords, metric_lower) THEN "Days"
        ELSE "Number"

\* C6: infer_unit returns the unit of the lowest-numbered bucket, in the
\* order monetary, per-share (price included), percentage, ratio, days,
\* default, that has a keyword in the cleaned lower-cased name; "Net Sales"
\* is "INR Crores", "EPS in Rs" is "INR", "ROE %" is "Percentage", "Debt to
\* Equity" is "Ratio", "Working Capital Days" is "Days", "Unknown Metric" is
\* "Number", "Operating Profit Margin %" is "INR Crores".
C6_UnitOfLowestBucket ==
    upc = "done" =>
        /\ unit = ClaimedUnit(metric_name)
        /\ (metric_name = <<"N","e","t"," ","S","a","l","e","s">>
              => unit = "INR Crores")
        /\ (metric_name = <<"E","P","S"," ","i","n"," ","R","s">>
              => unit = "INR")
        /\ (metric_name = <<"R","O","E"," ","%">>
              => unit = "Percentage")
        /\ (metric_name = <<"D","e","b","t"," ","t","o"," ","E","q","u","i","t","y">>
              => unit = "Ratio")
        /\ (metric_name = <<"W","o","r","k","i","n","g"," ","C","a","p","i","t","a","l"," ","D","a","y","s">>
              => unit = "Days")
        /\ (metric_name = <<"U","n","k","n","o","w","n"," ","M","e","t","r","i","c">>
              => unit = "Number")
        /\ (metric_name = <<"O","p","e","r","a","t","i","n","g"," ","P","r","o","f","i","t"," ","M","a","r","g","i","n"," ","%">>
              => unit = "INR Crores")

\* C7: clean_numeric_value is idempotent, cleaning a cleaned value returns
\* it unchanged; "", "-", "NA" and "N/A" (after trimming) become the empty
\* string.
C7_CleanIdempotent ==
    /\ (cpc = "twice" => recleaned = cleaned)
    /\ (cpc \in {"once", "twice"} /\ Strip(value) \in PlaceholderCells => cleaned = <<>>)

(***************************************************************************)
(* The claims about parsing and flattening.                                *)
(***************************************************************************)
\* every (statement, section, metric, target year) of the parsed tables
StoredCells ==
    UNION { UNION { UNION { { <<s, c, k, y>> : y \in DOMAIN all_years } :
                              k \in DOMAIN tables[s][2][c][2] } :
                      c \in DOMAIN tables[s][2] } :
              s \in DOMAIN tables }

\* the cleaned value stored for that metric and year, empty if none
Stored(cell) ==
    DictGet(tables[cell[1]][2][cell[2]][2][cell[3]][2], all_years[cell[4]], <<>>)

RecordOf(cell) ==
    [Company |-> company,
     Symbol |-> symbol,
     Statement |-> tables[cell[1]][1],
     Section |-> tables[cell[1]][2][cell[2]][1],
     Metric |-> clean_metric_name(tables[cell[1]][2][cell[2]][2][cell[3]][1]),
     Year |-> 2018 + cell[4],
     Value |-> Stored(cell),
     Unit |-> infer_unit(tables[cell[1]][2][cell[2]][2][cell[3]][1], tables[cell[1]][1]),
     Source |-> "Screener.in"]

RowsOfStatement(st) == SelectSeq(rows, LAMBDA r : r.Statement = st)

\* C8: create_normalized_rows never emits a record with an empty Value: for
\* every (statement, section, metric) and every year of the target range
\* there is a record if and only if the cleaned value stored for that year
\* is non-empty; the row ["Sales", "1,200", "-", "980"] under the years
\* 2022, 2023, 2024 gives exactly the records of 2022 ("1200") and 2024
\* ("980").
C8_RecordIffValueStored ==
    tpc = "normalized" =>
        /\ \A i \in DOMAIN rows : rows[i].Value # <<>>
        /\ \A cell \in StoredCells :
              Stored(cell) # <<>> => \E i \in DOMAIN rows : rows[i] = RecordOf(cell)
        /\ Len(rows) = Cardinality({ cell \in StoredCells : Stored(cell) # <<>> })
        /\ (page.tables[1] = <<ExampleTable>>
              => LET pl == RowsOfStatement("Profit & Loss")
                 IN  /\ Len(pl) = 2
                     /\ pl[1].Year = 2022 /\ pl[1].Value = <<"1","2","0","0">>
                     /\ pl[2].Year = 2024 /\ pl[2].Value = <<"9","8","0">>)

\* the example row was flattened beside a second statement
C8_Witness ==
    /\ tpc = "normalized"
    /\ page.tables[1] = <<ExampleTable>>
    /\ page.tables[4] # <<>>
    /\ Len(rows) = 4

\* the value columns of the first table of the page, and those with a year
ValueHeaders == Rest(page.tables[1][1].headers)

YearColumns == { j \in DOMAIN ValueHeaders : HasYear(ValueHeaders[j]) }

\* the MAX_YEARS rightmost year columns
RetainedColumns ==
    { j \in YearColumns : Cardinality({ k \in YearColumns : k > j }) < MAX_YEARS }

ColumnYear(j) == ToInt(YearOf(ValueHeaders[j]))

\* the cell of the first body row under value column j, empty if the row
\* is shorter
CellUnder(j) ==
    LET cols == page.tables[1][1].rows[1]
    IN  IF j + 1 <= Len(cols) THEN cols[j + 1] ELSE <<>>

\* C9: when the header has more year columns than MAX_YEARS, exactly the
\* MAX_YEARS rightmost years are retained, every retained year with a
\* non-empty cell produces a record and no dropped year produces one.
C9_TruncationKeepsRecentYears ==
    (/\ tpc = "normalized"
     /\ page.tables[1] # <<>>
     /\ Len(page.tables[1][1].rows) = 1
     /\ Len(page.tables[1][1].rows[1]) >= 2
     /\ Cardinality(YearColumns) > MAX_YEARS)
    => /\ DictKeys(tables[1][2][1][2][1][2])
            = { YearOf(ValueHeaders[j]) : j \in RetainedColumns }
       /\ \A j \in RetainedColumns :
             clean_numeric_value(CellUnder(j)) # <<>>
                => \E i \in DOMAIN rows : rows[i].Year = ColumnYear(j)
       /\ \A j \in YearColumns \ RetainedColumns :
             \A i \in DOMAIN rows : rows[i].Year # ColumnYear(j)

RecordKey(r) == <<r.Company, r.Statement, r.Section, r.Metric, r.Year>>

\* C10: among the records one run accumulates, no two share the same
\* (Company, Statement, Section, Metric, Year), Metric being the cleaned
\* name; also when two raw labels clean to the same name and when a company
\* appears twice in the batch.
C10_OneRecordPerKey ==
    \A i, j \in DOMAIN all_rows :
        i # j => RecordKey(all_rows[i]) # RecordKey(all_rows[j])

\* the first body row of the first table was parsed into a metric of its
\* own: it has a label and a value cell, and no later row has its label
FirstRowParsed ==
    /\ tpc \in {"fetched", "normalized"}
    /\ page.tables[1] # <<>>
    /\ page.tables[1][1].rows # <<>>
    /\ Len(page.tables[1][1].rows[1]) >= 2
    /\ \A k \in 2..Len(page.tables[1][1].rows) :
          page.tables[1][1].rows[k][1] # page.tables[1][1].rows[1][1]

\* the {year: value} mapping parse_financial_table stored for that row
FirstRowYears == tables[1][2][1][2][1][2]

\* C15: the value stored for a metric under a retained year is the cleaned
\* text of the row's cell in the column whose header carried that year,
\* also when the header has more year columns than MAX_YEARS and when it
\* has cells without a year among the value columns; no retained year is
\* paired with the cell of another column.
C15_ValueFromItsOwnColumn ==
    FirstRowParsed =>
        \A j \in RetainedColumns :
            j + 1 <= Len(page.tables[1][1].rows[1])
               => DictGet(FirstRowYears, YearOf(ValueHeaders[j]), <<"?">>)
                     = clean_numeric_value(CellUnder(j))

\* C16: when a row has fewer value cells than the retained year axis, the
\* missing trailing years get no key in the metric's year -> value mapping,
\* not even one with an empty value, and no record is produced for them.
C16_ShortRowLeavesYearsAbsent ==
    FirstRowParsed =>
        LET years == YearAxis(page.tables[1][1].headers)
            values == Tail(page.tables[1][1].rows[1])
        IN  \A i \in DOMAIN years :
                i > Len(values)
                   => /\ years[i] \notin DictKeys(FirstRowYears)
                      /\ (tpc = "normalized"
                            => \A r \in DOMAIN rows :
                                  ~(/\ rows[r].Statement = "Profit & Loss"
                                    /\ rows[r].Metric
                                          = clean_metric_name(page.tables[1][1].rows[1][1])
                                    /\ rows[r].Year = ToInt(years[i])))

(***************************************************************************)
(* The claims about find_best_symbol.                                      *)
(***************************************************************************)
\* the possibilities whose ratio to word reaches 0.6, and among them those
\* of the greatest ratio
CloseTo(word, possibilities) ==
    { p \in Range(possibilities) : 10 * Ratio(p, word)[1] >= 6 * Ratio(p, word)[2] }

ClosestTo(word, possibilities) ==
    { p \in CloseTo(word, possibilities) :
        \A q \in CloseTo(word, possibilities) :
            Ratio(p, word)[1] * Ratio(q, word)[2] >= Ratio(q, word)[1] * Ratio(p, word)[2] }

\* C14: find_best_symbol takes the first step that matches, in the order
\* exact name (on the upper-cased input), exact symbol, fuzzy name (cutoff
\* 0.6), fuzzy symbol (cutoff 0.6), default: a name and a symbol of the
\* dictionary, in any letter case, give the canonical symbol; no fuzzy
\* result is returned for an input that equals a name or a symbol; when no
\* step matches the upper-cased input is returned; the result is always a
\* string.
C14_FirstMatchingStep ==
    fpc = "done" =>
        LET upper == Upper(user_input)
            names == Range(SymbolKeys)
            symbols == Range(SymbolValues)
        IN  /\ DOMAIN best_symbol = 1..Len(best_symbol)
            /\ \A i \in DOMAIN company_symbols :
                  upper \in {company_symbols[i][1], company_symbols[i][2]}
                     => best_symbol = company_symbols[i][2]
            /\ (upper \notin names \cup symbols /\ CloseTo(upper, SymbolKeys) # {}
                  => \E i \in DOMAIN company_symbols :
                        /\ company_symbols[i][1] \in ClosestTo(upper, SymbolKeys)
                        /\ best_symbol = company_symbols[i][2])
            /\ ((/\ upper \notin names \cup symbols
                 /\ CloseTo(upper, SymbolKeys) = {}
                 /\ CloseTo(upper, SymbolValues) # {})
                => best_symbol \in ClosestTo(upper, SymbolValues))
            /\ ((/\ upper \notin names \cup symbols
                 /\ CloseTo(upper, SymbolKeys) = {}
                 /\ CloseTo(upper, SymbolValues) = {})
                => best_symbol = upper)

\* a symbol typed in lower case came back as the canonical symbol
C14_Witness ==
    /\ fpc = "done"
    /\ user_input = <<"i","n","f","y">>
    /\ best_symbol = <<"I","N","F","Y">>

(***************************************************************************)
(* The claims about the news and sentiment collectors.                     *)
(***************************************************************************)
\* the sources each collector fetches, in call order
SourcesOf(collector) ==
    IF collector = "senti_analys"
    THEN <<"twitter", "youtube", "news", "hackernews">>
    ELSE <<"Yahoo Finance", "Seeking Alpha">>

\* C12: in the news and sentiment collectors a network or parse failure
\* while fetching one source is caught inside that source's fetch function:
\* no error leaves a fetch, the failed source contributes an empty list,
\* every remaining source is still fetched and the export step is reached
\* with the items of the sources that succeeded.
C12_SourceFailureStaysLocal ==
    (script # "")
    => /\ kpc # "raised"
       /\ Len(collected) = Len(fetch_log)
       /\ \A i \in DOMAIN fetch_log :
             /\ i <= Len(collected) => collected[i][1] = fetch_log[i].source
             /\ i <= Len(collected) /\ fetch_log[i].failed => collected[i][2] = <<>>
       /\ (kpc = "done"
             => /\ [i \in DOMAIN fetch_log |-> fetch_log[i].source] = SourcesOf(script)
                /\ \A i \in DOMAIN collected :
                      \A k \in DOMAIN collected[i][2] :
                         \E r \in DOMAIN saved :
                            /\ saved[r].source = collected[i][1]
                            /\ IF script = "senti_analys"
                               THEN saved[r].text = collected[i][2][k]
                               ELSE saved[r] = collected[i][2][k])

(***************************************************************************)
(* The claims about the run of the pipeline.                               *)
(***************************************************************************)
\* no name of the batch is blank: get_company_input and resolve_nse_symbol
\* raise nothing, so the only errors left are those of the fetch and of the
\* export
NoBlankInput ==
    \A i \in DOMAIN company_inputs : ~WhitespaceOnly(company_inputs[i])

\* C11: in batch mode a fetch failure for one company aborts only that
\* company: the loop goes on to every later company of the batch (the run
\* ends with the loop index past the last company) and the records of the
\* companies that succeeded are the ones handed to the export.
C11_FetchFailureSkipsOneCompany ==
    (/\ ppc \in {"returned", "exited"}
     /\ Len(company_inputs) > 1
     /\ NoBlankInput)
    => /\ idx = Len(company_inputs) + 1
       /\ (all_rows # <<>> /\ success => csv_file = export_to_csv(all_rows))

\* the run went through every stage: the input was read, the loop passed
\* the last company and the export step handed over all the records (none
\* written when there are none)
RanToCompletion ==
    /\ ppc \in {"returned", "exited"}
    /\ idx = Len(company_inputs) + 1
    /\ csv_file = export_to_csv(all_rows)

\* C13: the process exits with code 0 exactly when run_financial_pipeline
\* ran to completion without an error (input read, every company resolved,
\* fetched and normalized, export step executed, also when there is no
\* record and no file is written) and with code 1 whenever an error was
\* raised at any stage; there is no other exit code and no error escapes
\* the handler: the only step after a raise is the handler's return.
C13_ExitCodeTellsCompletion ==
    /\ [](/\ exit_code \in {-1, 0, 1}
          /\ (exit_code # -1 <=> ppc = "exited")
          /\ (ppc = "exited" => (exit_code = 0 <=> RanToCompletion))
          /\ (ppc = "exited" /\ idx = Len(company_inputs) + 1 /\ all_rows = <<>>
                => exit_code = 0 /\ csv_file = <<>>)
          /\ (ppc = "except"
                => idx <= Len(company_inputs) \/ csv_file # export_to_csv(all_rows))
          /\ (ppc = "returned" /\ success => RanToCompletion))
    /\ [][/\ (ppc = "except"
                => ppc' = "returned"
                   /\ UNCHANGED <<company_inputs, idx, all_rows, csv_file>>)
          /\ (ppc = "returned"
                => ppc' = "exited"
                   /\ UNCHANGED <<company_inputs, idx, all_rows, csv_file>>)
          /\ (ppc' = "returned" /\ ppc # "except"
                => ppc = "loop" /\ idx > Len(company_inputs) /\ success')]_vars

\* a run that produced no record and wrote no file ended with code 0
C13_Witness ==
    /\ ppc = "exited"
    /\ exit_code = 0
    /\ Len(company_inputs) = 2
    /\ all_rows = <<>>
    /\ csv_file = <<>>

=============================================================================
